---- MODULE Spec2Model ----
(***************************************************************************)
(* A model of altair_parser/jsonschema.py (class JSONSchema): schema nodes *)
(* wrapping fragments of a JSON Schema document, reference resolution, the *)
(* object-like / trait-like predicates, the extractor chain and the        *)
(* definition / property wrappers.                                         *)
(*                                                                         *)
(* A JSON document is an arena of fragments: fragment 1 is the document's  *)
(* root and a mapping holds its entries in insertion order, as Python's    *)
(* dict does.  A JSON string is the sequence of its maximal "/"-free       *)
(* chunks and its "/" characters, so that str.split('/') is computed.      *)
(***************************************************************************)
EXTENDS Naturals, Sequences, FiniteSets, TLC

VARIABLES doc, nodes, result

vars == <<doc, nodes, result>>

\* ------------------------------------------------------------------ bounds

\* The node arena: an operation is taken only when the nodes it hands out
\* fit among MaxNodes nodes.
MaxNodes == 3

\* The interpreter's call-stack budget for the recursive predicates (CPython
\* raises RecursionError beyond it).
RecursionLimit == 6

\* ------------------------------------------------------------------ values

NoneV == "<None>"

EmptyDict == << >>

Dict(pairs) == [kind |-> "dict", keys |-> pairs, items |-> << >>, s |-> << >>]

List(items) == [kind |-> "list", keys |-> << >>, items |-> items, s |-> << >>]

Str(chunks) == [kind |-> "str", keys |-> << >>, items |-> << >>, s |-> chunks]

\* {"type": "object",
\*  "properties": {"a": {"type": "string", "enum": ["a"]},
\*                 "b-c": {"$ref": "#/definitions/P"}},
\*  "required": ["a"],
\*  "definitions": {"P": {"properties": {}}}}
DocObject ==
  << Dict(<< <<"type", 2>>, <<"properties", 3>>, <<"required", 8>>, <<"definitions", 10>> >>),
     Str(<<"object">>),
     Dict(<< <<"a", 4>>, <<"b-c", 6>> >>),
     Dict(<< <<"type", 5>>, <<"enum", 12>> >>),
     Str(<<"string">>),
     Dict(<< <<"$ref", 7>> >>),
     Str(<<"#", "/", "definitions", "/", "P">>),
     List(<<9>>),
     Str(<<"a">>),
     Dict(<< <<"P", 11>> >>),
     Dict(<< <<"properties", 13>> >>),
     List(<<9>>),
     Dict(<< >>) >>

\* {"anyOf": [{"properties": {}}, {"type": "string"}],
\*  "definitions": {"U": {"type": "any"},
\*                  "O": {"oneOf": [{"properties": {}}]}},
\*  "": {}}
DocMixed ==
  << Dict(<< <<"anyOf", 2>>, <<"definitions", 3>>, <<"", 5>> >>),
     List(<<4, 6>>),
     Dict(<< <<"U", 8>>, <<"O", 10>> >>),
     Dict(<< <<"properties", 5>> >>),
     Dict(<< >>),
     Dict(<< <<"type", 7>> >>),
     Str(<<"string">>),
     Dict(<< <<"type", 9>> >>),
     Str(<<"any">>),
     Dict(<< <<"oneOf", 11>> >>),
     List(<<4>>) >>

\* {"definitions": {"A": {"allOf": [{"$ref": "#/definitions/A"}]}},
\*  "anyOf": [{"type": "string"}, {"$ref": "#/definitions/A"}]}
DocCyclic ==
  << Dict(<< <<"definitions", 3>>, <<"anyOf", 2>> >>),
     List(<<7, 5>>),
     Dict(<< <<"A", 4>> >>),
     Dict(<< <<"allOf", 6>> >>),
     Dict(<< <<"$ref", 9>> >>),
     List(<<5>>),
     Dict(<< <<"type", 8>> >>),
     Str(<<"string">>),
     Str(<<"#", "/", "definitions", "/", "A">>) >>

\* {"definitions": {"Foo": {"properties": {}}, "foo": {"type": "string"}},
\*  "defs": {"Baz": {"not": {"type": "string"}}, "Foo": {"enum": ["string"]}}}
DocDefs ==
  << Dict(<< <<"definitions", 2>>, <<"defs", 3>> >>),
     Dict(<< <<"Foo", 4>>, <<"foo", 5>> >>),
     Dict(<< <<"Baz", 6>>, <<"Foo", 7>> >>),
     Dict(<< <<"properties", 8>> >>),
     Dict(<< <<"type", 9>> >>),
     Dict(<< <<"not", 5>> >>),
     Dict(<< <<"enum", 10>> >>),
     Dict(<< >>),
     Str(<<"string">>),
     List(<<9>>) >>

Docs == <<DocObject, DocMixed, DocCyclic, DocDefs>>

D == Docs[doc]

\* ------------------------------------------------------------ dict access

HasKey(f, k) == \E i \in 1..Len(D[f].keys) : D[f].keys[i][1] = k

Lookup(f, k) == D[f].keys[CHOOSE i \in 1..Len(D[f].keys) : D[f].keys[i][1] = k][2]

KeysOf(f) == [i \in 1..Len(D[f].keys) |-> D[f].keys[i][1]]

\* Python truthiness of a JSON value.
Truthy(f) ==
  CASE D[f].kind = "dict" -> Len(D[f].keys) > 0
    [] D[f].kind = "list" -> Len(D[f].items) > 0
    [] D[f].kind = "str" -> Len(D[f].s) > 0
    [] OTHER -> FALSE

\* ------------------------------------------------------------------- nodes

DefaultDefinitionTags == <<"definitions">>

\* JSONSchema.__init__ for a schema that is a dict (any other schema raises
\* ValueError, see NotADict).  context 0 is "no context given"; metadata None
\* and {} both arrive as EmptyDict, which "metadata or {}" leaves as it is.
JSONSchema_init(self, schema, module, context, parent, name, metadata, definition_tags) ==
  [schema |-> schema,
   module |-> module,
   parent |-> parent,
   name |-> name,
   metadata |-> metadata,
   context |-> IF context = 0 THEN self ELSE context,
   definition_tags |-> definition_tags,
   trait_extractor |-> NoneV]

NotADict(schema) == D[schema].kind # "dict"

\* make_child passing parent=self.context in place of parent=self.
make_child_at_context(self, n, schema, name, metadata) ==
  JSONSchema_init(self, schema, nodes[n].module, nodes[n].context, nodes[n].context, name,
                  metadata, DefaultDefinitionTags)

\* self.make_child(schema, name, metadata), constructing node number self.
make_child_at(self, n, schema, name, metadata) ==
  JSONSchema_init(self, schema, nodes[n].module, nodes[n].context, n, name,
                  metadata, DefaultDefinitionTags)

make_child(n, schema, name, metadata) ==
  make_child_at(Len(nodes) + 1, n, schema, name, metadata)

\* copy leaving the context out of the constructor's arguments.
copy_without_context(n, kwargs) ==
  JSONSchema_init(Len(nodes) + 1, nodes[n].schema, nodes[n].module, 0,
                  nodes[n].parent,
                  IF "name" \in DOMAIN kwargs THEN kwargs["name"] ELSE nodes[n].name,
                  nodes[n].metadata, DefaultDefinitionTags)

\* self.copy(**kwargs) with kwargs overriding name or nothing.
copy(n, kwargs) ==
  JSONSchema_init(Len(nodes) + 1, nodes[n].schema, nodes[n].module, nodes[n].context,
                  nodes[n].parent,
                  IF "name" \in DOMAIN kwargs THEN kwargs["name"] ELSE nodes[n].name,
                  nodes[n].metadata, DefaultDefinitionTags)

is_root(ns, n) == ns[n].context = n

\* ------------------------------------------------------ reference resolver

RECURSIVE SplitFrom(_, _, _, _)
SplitFrom(chunks, i, cur, out) ==
  IF i > Len(chunks) THEN Append(out, cur)
  ELSE IF chunks[i] = "/" THEN SplitFrom(chunks, i + 1, "", Append(out, cur))
  ELSE SplitFrom(chunks, i + 1, chunks[i], out)

\* ref.split('/')
Split(chunks) == SplitFrom(chunks, 1, "", << >>)

\* schema[key] with a str key: only a mapping can be indexed by it.
Subscript(f, key) ==
  IF D[f].kind # "dict" THEN [err |-> "TypeError", f |-> f]
  ELSE IF ~HasKey(f, key) THEN [err |-> "KeyError", f |-> f]
  ELSE [err |-> "", f |-> Lookup(f, key)]

\* for key in path[1:]: schema = schema[key]
RECURSIVE Walk(_, _, _)
WalkOn(step, path, i) == IF step.err # "" THEN step ELSE Walk(step.f, path, i + 1)

Walk(f, path, i) ==
  IF i > Len(path) THEN [err |-> "", f |-> f] ELSE WalkOn(Subscript(f, path[i]), path, i)

Raise(exc, msg) == [outcome |-> exc, msg |-> msg, kind |-> "", schema |-> 0, name |-> NoneV]

\* The end of get_reference: the walk w raised, or its target is wrapped as
\* a child called name (which __init__ refuses unless the target is a dict).
WrapTarget(w, name) ==
  IF w.err = "KeyError" THEN Raise("ValueError", "$ref not present in the schema")
  ELSE IF w.err # "" THEN Raise(w.err, "")
  ELSE IF D[w.f].kind # "dict" THEN Raise("ValueError", "schema should be supplied as a dict")
  ELSE [outcome |-> "ok", msg |-> "", kind |-> "child", schema |-> w.f, name |-> name]

ResolvePath(c, path) ==
  IF path[1] # "#" THEN Raise("ValueError", "Unrecognized $ref format")
  ELSE IF Len(path) = 1 \/ path[2] = ""
    THEN [outcome |-> "ok", msg |-> "", kind |-> "context", schema |-> c, name |-> NoneV]
  ELSE WrapTarget(Walk(c, path, 2), path[Len(path)])

\* What get_reference(ref) does on a node whose context wraps fragment c:
\* raise, return the context itself, or make a child of the invoking node.
get_reference(c, ref) ==
  IF ref = << >> THEN Raise("ValueError", "empty reference") ELSE ResolvePath(c, Split(ref))

\* get_reference on a $ref value r: one that is no string is either falsy
\* ("empty reference") or has no split().
ResolveValue(r, c) ==
  IF D[r].kind = "str" THEN get_reference(c, D[r].s)
  ELSE IF ~Truthy(r) THEN Raise("ValueError", "empty reference")
  ELSE Raise("AttributeError", "")

\* self.get_reference(self.schema['$ref'])
wrapped_ref(f, c) == ResolveValue(Lookup(f, "$ref"), c)

\* ------------------------------------------- object-like / trait-like

\* schema.get('type', 'object') != 'object'
TypeIsNotObject(f) ==
  HasKey(f, "type") /\ ~(D[Lookup(f, "type")].kind = "str" /\ D[Lookup(f, "type")].s = <<"object">>)

\* The elements Python yields iterating a composition keyword's value:
\* a list's members; a mapping's keys and a string's characters are strings,
\* written 0, which no node can wrap.
Elements(f) ==
  IF D[f].kind = "list" THEN D[f].items
  ELSE IF D[f].kind = "dict" THEN [i \in 1..Len(D[f].keys) |-> 0]
  ELSE [i \in 1..Len(D[f].s) |-> 0]

Wrappable(e) == e # 0 /\ D[e].kind = "dict"

\* The composition keyword the predicates look at: anyOf before allOf
\* before oneOf.
Composition(f) ==
  IF HasKey(f, "anyOf") THEN "anyOf" ELSE IF HasKey(f, "allOf") THEN "allOf" ELSE "oneOf"

HasComposition(f) == HasKey(f, "anyOf") \/ HasKey(f, "allOf") \/ HasKey(f, "oneOf")

RECURSIVE really_is_object(_, _, _)
RECURSIVE AllObject(_, _, _, _)
\* self.wrapped_ref().really_is_object(), r being what wrapped_ref does.
RefIsObject(r, c, depth) ==
  IF r.outcome # "ok" THEN r.outcome ELSE really_is_object(r.schema, c, depth + 1)

really_is_object(f, c, depth) ==
  IF depth > RecursionLimit THEN "RecursionError"
  ELSE IF HasKey(f, "properties") THEN "True"
  ELSE IF HasKey(f, "$ref") THEN RefIsObject(wrapped_ref(f, c), c, depth)
  ELSE IF HasComposition(f) THEN AllObject(Elements(Lookup(f, Composition(f))), 1, c, depth)
  ELSE "False"

AndObject(b, es, i, c, depth) == IF b = "True" THEN AllObject(es, i + 1, c, depth) ELSE b

\* all(self.make_child(spec).really_is_object() for spec in branches)
AllObject(es, i, c, depth) ==
  IF i > Len(es) THEN "True"
  ELSE IF ~Wrappable(es[i]) THEN "ValueError"
  ELSE AndObject(really_is_object(es[i], c, depth + 1), es, i, c, depth)

RECURSIVE really_is_trait(_, _, _)
RECURSIVE AllTrait(_, _, _, _)
RefIsTrait(r, c, depth) ==
  IF r.outcome # "ok" THEN r.outcome ELSE really_is_trait(r.schema, c, depth + 1)

really_is_trait(f, c, depth) ==
  IF depth > RecursionLimit THEN "RecursionError"
  ELSE IF TypeIsNotObject(f) THEN "True"
  ELSE IF HasKey(f, "properties") THEN "False"
  ELSE IF HasKey(f, "$ref") THEN RefIsTrait(wrapped_ref(f, c), c, depth)
  ELSE IF HasComposition(f) THEN AllTrait(Elements(Lookup(f, Composition(f))), 1, c, depth)
  ELSE "False"

AndTrait(b, es, i, c, depth) == IF b = "True" THEN AllTrait(es, i + 1, c, depth) ELSE b

AllTrait(es, i, c, depth) ==
  IF i > Len(es) THEN "True"
  ELSE IF ~Wrappable(es[i]) THEN "ValueError"
  ELSE AndTrait(really_is_trait(es[i], c, depth + 1), es, i, c, depth)

\* --------------------------------------------------------- extractor chain

\* The list with SimpleType moved ahead of Enum.
trait_extractors_reordered ==
  <<"AnyOfObject", "OneOfObject", "AllOfObject", "RefObject", "RefTrait",
    "Not", "AnyOf", "AllOf", "OneOf", "SimpleType", "Enum", "CompoundType",
    "Array", "Object">>

\* JSONSchema.trait_extractors, in the order the chain tries them.
trait_extractors ==
  <<"AnyOfObject", "OneOfObject", "AllOfObject", "RefObject", "RefTrait",
    "Not", "AnyOf", "AllOf", "OneOf", "Enum", "SimpleType", "CompoundType",
    "Array", "Object">>

Neg(b) == IF b = "True" THEN "False" ELSE IF b = "False" THEN "True" ELSE b

Bool(b) == IF b THEN "True" ELSE "False"

TypeIs(f, names) ==
  HasKey(f, "type") /\ D[Lookup(f, "type")].kind = "str"
    /\ \E t \in names : D[Lookup(f, "type")].s = <<t>>

\* <Keyword>Object: the keyword is present and every branch is object-like.
CheckCompositionObject(f, c, kw) ==
  IF ~HasKey(f, kw) THEN "False" ELSE AllObject(Elements(Lookup(f, kw)), 1, c, 1)

\* RefObject / RefTrait: a $ref whose resolved target is object-like / is not.
CheckRefObject(f, c) ==
  IF ~HasKey(f, "$ref") THEN "False" ELSE RefIsObject(wrapped_ref(f, c), c, 0)

CheckRefTrait(f, c) ==
  IF ~HasKey(f, "$ref") THEN "False" ELSE Neg(RefIsObject(wrapped_ref(f, c), c, 0))

\* AnyOf / AllOf / OneOf: the keyword is present and the node is not
\* object-like overall.
CheckComposition(f, c, kw) ==
  IF ~HasKey(f, kw) THEN "False" ELSE Neg(really_is_object(f, c, 1))

\* What <extractor>(node).check() answers: "True", "False" or the exception
\* it raises.
check(ex, f, c) ==
  CASE ex = "AnyOfObject" -> CheckCompositionObject(f, c, "anyOf")
    [] ex = "OneOfObject" -> CheckCompositionObject(f, c, "oneOf")
    [] ex = "AllOfObject" -> CheckCompositionObject(f, c, "allOf")
    [] ex = "RefObject" -> CheckRefObject(f, c)
    [] ex = "RefTrait" -> CheckRefTrait(f, c)
    [] ex = "Not" -> Bool(HasKey(f, "not"))
    [] ex = "AnyOf" -> CheckComposition(f, c, "anyOf")
    [] ex = "AllOf" -> CheckComposition(f, c, "allOf")
    [] ex = "OneOf" -> CheckComposition(f, c, "oneOf")
    [] ex = "Enum" -> Bool(HasKey(f, "enum"))
    [] ex = "SimpleType" ->
         Bool(TypeIs(f, {"null", "boolean", "number", "integer", "string"})
              /\ ~HasComposition(f))
    [] ex = "CompoundType" -> Bool(HasKey(f, "type") /\ D[Lookup(f, "type")].kind = "list")
    [] ex = "Array" -> Bool(TypeIs(f, {"array"}))
    [] OTHER -> Bool(~TypeIsNotObject(f))

NoMatch(f, what) ==
  [outcome |-> "ValueError", msg |-> what, keys |-> KeysOf(f), extractor |-> NoneV]

\* for TraitExtractor in self.trait_extractors: ... if check(): ... else: raise
RECURSIVE FirstMatchFrom(_, _, _, _)
Matched(b, f, c, i, what) ==
  IF b = "True"
    THEN [outcome |-> "ok", msg |-> "", keys |-> << >>, extractor |-> trait_extractors[i]]
  ELSE IF b = "False" THEN FirstMatchFrom(f, c, i + 1, what)
  ELSE [outcome |-> b, msg |-> "", keys |-> << >>, extractor |-> NoneV]

FirstMatchFrom(f, c, i, what) ==
  IF i > Len(trait_extractors) THEN NoMatch(f, what)
  ELSE Matched(check(trait_extractors[i], f, c), f, c, i, what)

FirstMatch(f, c, what) == FirstMatchFrom(f, c, 1, what)

\* ------------------------------------------------------ validator library

Undefined == [t |-> "undefined", v |-> 0]

\* Values offered to a validator; a float is written in hundredths.
Values ==
  { Undefined, [t |-> "none", v |-> 0], [t |-> "bool", v |-> 1],
    [t |-> "int", v |-> 3], [t |-> "int", v |-> 0],
    [t |-> "float", v |-> 314], [t |-> "float", v |-> 300],
    [t |-> "str", v |-> 0] }

Leaf(kind, allow_undefined) ==
  [kind |-> kind, allow_undefined |-> allow_undefined, branches |-> << >>]

Composite(kind, branches, allow_undefined) ==
  [kind |-> kind, allow_undefined |-> allow_undefined, branches |-> branches]

\* The type check of a primitive descriptor.
TypeCheck(kind, v) ==
  CASE kind = "Null" -> v.t = "none"
    [] kind = "Boolean" -> v.t = "bool"
    [] kind = "Number" -> v.t \in {"int", "float"}
    [] kind = "Integer" -> v.t = "int" \/ (v.t = "float" /\ v.v % 100 = 0)
    [] kind = "String" -> v.t = "str"
    [] OTHER -> FALSE

\* OneOf passing as AnyOf does.
OneOfPasses_any(passing) == passing >= 1

\* OneOf: exactly one branch validates.
OneOfPasses(passing) == passing = 1

RECURSIVE validate(_, _)
RECURSIVE Passing(_, _, _)
\* The number of branches from the i-th on that validate v.
Passing(branches, i, v) ==
  IF i > Len(branches) THEN 0
  ELSE (IF validate(branches[i], v) THEN 1 ELSE 0) + Passing(branches, i + 1, v)

\* descriptor.validate(value): TRUE when it passes, FALSE when it fails.
validate(d, v) ==
  IF v = Undefined THEN d.allow_undefined
  ELSE CASE d.kind = "AnyOf" -> Passing(d.branches, 1, v) >= 1
         [] d.kind = "OneOf" -> OneOfPasses(Passing(d.branches, 1, v))
         [] d.kind = "AllOf" -> Passing(d.branches, 1, v) = Len(d.branches)
         [] d.kind = "Not" -> Passing(d.branches, 1, v) = 0
         [] OTHER -> TypeCheck(d.kind, v)

\* The descriptor an extractor's trait_code(**kwargs) stands for.
DescriptorKind(ex, f) ==
  IF ex # "SimpleType" THEN ex
  ELSE CASE TypeIs(f, {"null"}) -> "Null"
         [] TypeIs(f, {"boolean"}) -> "Boolean"
         [] TypeIs(f, {"number"}) -> "Number"
         [] TypeIs(f, {"integer"}) -> "Integer"
         [] OTHER -> "String"

DescriptorFor(ex, f, kwargs) ==
  Leaf(DescriptorKind(ex, f),
       IF "allow_undefined" \in DOMAIN kwargs THEN kwargs["allow_undefined"] ELSE TRUE)

\* --------------------------------------------------- wrappers over tables

\* str.lower() on the definition names in use.
Lower(s) ==
  CASE s = "Foo" -> "foo" [] s = "Bar" -> "bar" [] s = "Baz" -> "baz"
    [] s = "P" -> "p" [] s = "O" -> "o" [] s = "U" -> "u" [] s = "A" -> "a"
    [] OTHER -> s

\* utils.regularize_name on the property names in use: a character that
\* cannot stand in an identifier becomes "_".
regularize_name(s) == IF s = "b-c" THEN "b_c" ELSE s

\* d[key] = val on an insertion-ordered mapping of <<key, val>> entries.
RECURSIVE PutFrom(_, _, _, _)
PutFrom(d, i, key, val) ==
  IF i > Len(d) THEN Append(d, <<key, val>>)
  ELSE IF d[i][1] = key THEN [d EXCEPT ![i] = <<key, val>>]
  ELSE PutFrom(d, i + 1, key, val)

Put(d, key, val) == PutFrom(d, 1, key, val)

RECURSIVE UpdateFrom(_, _, _)
UpdateFrom(d, pairs, i) ==
  IF i > Len(pairs) THEN d ELSE UpdateFrom(Put(d, pairs[i][1], pairs[i][2]), pairs, i + 1)

\* schema.get(tag, {}) for a table that is a mapping.
Table(f, tag) ==
  IF HasKey(f, tag) /\ D[Lookup(f, tag)].kind = "dict" THEN D[Lookup(f, tag)].keys ELSE << >>

\* for tag in self.definition_tags: defs.update(self.schema.get(tag, {}))
RECURSIVE all_definitions_from(_, _, _, _)
all_definitions_from(f, tags, i, defs) ==
  IF i > Len(tags) THEN defs
  ELSE all_definitions_from(f, tags, i + 1, UpdateFrom(defs, Table(f, tags[i]), 1))

all_definitions(n) == all_definitions_from(nodes[n].schema, nodes[n].definition_tags, 1, << >>)

\* The key under which wrapped_definitions files the definition called name.
DefinitionKey(name) == Lower(name)

\* {name.lower(): make_child(schema, name=name) for name, schema in defs}:
\* the mapping as <<key, [name, schema]>> entries.
RECURSIVE WrapDefinitionsFrom(_, _, _)
WrapDefinitionsFrom(defs, i, out) ==
  IF i > Len(defs) THEN out
  ELSE WrapDefinitionsFrom(defs, i + 1,
         Put(out, DefinitionKey(defs[i][1]), [name |-> defs[i][1], schema |-> defs[i][2]]))

\* name in self.required, for a 'required' that is a list.
IsRequired(f, name) ==
  /\ HasKey(f, "required")
  /\ \E i \in 1..Len(D[Lookup(f, "required")].items) :
       /\ D[D[Lookup(f, "required")].items[i]].kind = "str"
       /\ D[D[Lookup(f, "required")].items[i]].s = <<name>>

\* wrapped_properties leaving every child optional.
PropertyMetadata_optional(f, name) == "required" :> FALSE

\* The metadata wrapped_properties hands to the child made for property name.
PropertyMetadata(f, name) == "required" :> IsRequired(f, name)

\* {regularize_name(name): make_child(val, metadata=...) for name, val in props}
RECURSIVE WrapPropertiesFrom(_, _, _, _)
WrapPropertiesFrom(f, props, i, out) ==
  IF i > Len(props) THEN out
  ELSE WrapPropertiesFrom(f, props, i + 1,
         Put(out, regularize_name(props[i][1]),
             [name |-> props[i][1], schema |-> props[i][2],
              metadata |-> PropertyMetadata(f, props[i][1])]))

\* The kwargs trait_code passes to the extractor.
trait_code_kwargs(n) ==
  IF "required" \in DOMAIN nodes[n].metadata /\ nodes[n].metadata["required"]
    THEN "allow_undefined" :> FALSE
    ELSE EmptyDict

\* ------------------------------------------------------------ state machine

\* The inputs the operations are called with.
Refs ==
  { << >>,
    <<"#">>,
    <<"#", "/">>,
    <<"definitions", "/", "P">>,
    <<"#", "/", "definitions", "/", "P">>,
    <<"#", "/", "definitions", "/", "A">>,
    <<"#", "/", "definitions", "/", "/", "P">>,
    <<"#", "/", "definitions", "/", "P", "/", "properties">>,
    <<"#", "/", "type">>,
    <<"#", "/", "type", "/", "x">> }

\* make_child's arguments: a fragment with a name and metadata.
MakeChildInputs ==
  { [schema |-> 2, name |-> NoneV, metadata |-> EmptyDict],
    [schema |-> 3, name |-> "x", metadata |-> "required" :> TRUE] }

CopyKwargs == {EmptyDict, "name" :> "y"}

\* The roots: a document and the definition_tags it is wrapped with.
Roots ==
  { [doc |-> 1, tags |-> <<"definitions">>],
    [doc |-> 2, tags |-> <<"definitions">>],
    [doc |-> 3, tags |-> <<"definitions">>],
    [doc |-> 4, tags |-> <<"definitions">>],
    [doc |-> 4, tags |-> <<"definitions", "defs">>] }

NoDescriptor == Leaf("none", TRUE)

NoResult ==
  [op |-> "none", node |-> 0, ref |-> << >>, outcome |-> "none", msg |-> "",
   keys |-> << >>, ret |-> 0, extractor |-> NoneV, kwargs |-> EmptyDict,
   desc |-> NoDescriptor, val |-> Undefined, entries |-> << >>, classes |-> << >>]

Called(op, n) == [NoResult EXCEPT !.op = op, !.node = n]

Raised(op, n, exc, msg) == [Called(op, n) EXCEPT !.outcome = exc, !.msg = msg]

Nodes == 1..Len(nodes)

\* The fragment the node's context wraps.
Ctx(n) == nodes[nodes[n].context].schema

\* No call is under way: the caller has taken the last outcome.
Idle == result = NoResult

Init ==
  /\ \E r \in Roots :
       /\ doc = r.doc
       /\ nodes = << JSONSchema_init(1, 1, "pkg", 0, 0, NoneV, EmptyDict, r.tags) >>
  /\ result = NoResult

MakeChild(n, schema, name, metadata) ==
  /\ Idle
  /\ Len(nodes) < MaxNodes
  /\ IF NotADict(schema)
       THEN /\ nodes' = nodes
            /\ result' = Raised("make_child", n, "ValueError", "schema should be supplied as a dict")
       ELSE /\ nodes' = Append(nodes, make_child(n, schema, name, metadata))
            /\ result' = [Called("make_child", n) EXCEPT !.outcome = "ok", !.ret = Len(nodes) + 1]
  /\ UNCHANGED doc

Copy(n, kwargs) ==
  /\ Idle
  /\ Len(nodes) < MaxNodes
  /\ nodes' = Append(nodes, copy(n, kwargs))
  /\ result' = [Called("copy", n) EXCEPT !.outcome = "ok", !.ret = Len(nodes) + 1]
  /\ UNCHANGED doc

\* The effect of a get_reference outcome r computed for node n.
Resolved(op, n, ref, r) ==
  IF r.outcome # "ok"
    THEN /\ nodes' = nodes
         /\ result' = [Raised(op, n, r.outcome, r.msg) EXCEPT !.ref = ref]
  ELSE IF r.kind = "context"
    THEN /\ nodes' = nodes
         /\ result' = [Called(op, n) EXCEPT !.ref = ref, !.outcome = "ok",
                                            !.ret = nodes[n].context]
  ELSE /\ Len(nodes) < MaxNodes
       /\ nodes' = Append(nodes, make_child(n, r.schema, r.name, EmptyDict))
       /\ result' = [Called(op, n) EXCEPT !.ref = ref, !.outcome = "ok",
                                          !.ret = Len(nodes) + 1]

GetReference(n, ref) ==
  /\ Idle
  /\ Resolved("get_reference", n, ref, get_reference(Ctx(n), ref))
  /\ UNCHANGED doc

RefText(r) == IF D[r].kind = "str" THEN D[r].s ELSE << >>

WrappedRef(n) ==
  /\ Idle
  /\ IF ~HasKey(nodes[n].schema, "$ref")
       THEN /\ nodes' = nodes
            /\ result' = Raised("wrapped_ref", n, "KeyError", "$ref")
       ELSE Resolved("wrapped_ref", n, RefText(Lookup(nodes[n].schema, "$ref")),
                     wrapped_ref(nodes[n].schema, Ctx(n)))
  /\ UNCHANGED doc

\* The nodes made for the entries of a wrapped table, numbered from the
\* arena's end on, and the mapping handed back.
NewNodes(n, wrapped) ==
  [i \in 1..Len(wrapped) |->
     make_child_at(Len(nodes) + i, n, wrapped[i][2].schema,
                   IF "metadata" \in DOMAIN wrapped[i][2] THEN NoneV ELSE wrapped[i][2].name,
                   IF "metadata" \in DOMAIN wrapped[i][2] THEN wrapped[i][2].metadata
                                                          ELSE EmptyDict)]

NewEntries(wrapped) ==
  [i \in 1..Len(wrapped) |->
     [key |-> wrapped[i][1], name |-> wrapped[i][2].name, node |-> Len(nodes) + i]]

wrapped_definitions(n) == WrapDefinitionsFrom(all_definitions(n), 1, << >>)

wrapped_properties(n) ==
  WrapPropertiesFrom(nodes[n].schema, Table(nodes[n].schema, "properties"), 1, << >>)

WrappedTable(op, n, wrapped) ==
  /\ Idle
  /\ Len(nodes) + Len(wrapped) <= MaxNodes
  /\ IF \E i \in 1..Len(wrapped) : NotADict(wrapped[i][2].schema)
       THEN /\ nodes' = nodes
            /\ result' = Raised(op, n, "ValueError", "schema should be supplied as a dict")
       ELSE /\ nodes' = nodes \o NewNodes(n, wrapped)
            /\ result' = [Called(op, n) EXCEPT !.outcome = "ok", !.entries = NewEntries(wrapped)]
  /\ UNCHANGED doc

WrappedDefinitions(n) == WrappedTable("wrapped_definitions", n, wrapped_definitions(n))

WrappedProperties(n) == WrappedTable("wrapped_properties", n, wrapped_properties(n))

Matching(op, n, m) ==
  [Called(op, n) EXCEPT !.outcome = m.outcome, !.msg = m.msg, !.keys = m.keys,
                        !.extractor = m.extractor]

\* The extractor cached on the class, so on every node, not on the instance.
Cache_on_class(n, m) ==
  IF m.outcome = "ok"
    THEN [i \in 1..Len(nodes) |-> [nodes[i] EXCEPT !.trait_extractor = m.extractor]]
    ELSE nodes

\* self._trait_extractor = trait_extractor, when the chain's outcome m is a match.
Cache(n, m) ==
  IF m.outcome = "ok" THEN [nodes EXCEPT ![n].trait_extractor = m.extractor] ELSE nodes

\* The trait_extractor property: the cached extractor, or the chain's first
\* match, which it caches.
TraitExtractor(n) ==
  /\ Idle
  /\ IF nodes[n].trait_extractor # NoneV
       THEN /\ nodes' = nodes
            /\ result' = [Called("trait_extractor", n) EXCEPT
                            !.outcome = "ok", !.extractor = nodes[n].trait_extractor]
       ELSE /\ nodes' = Cache(n, FirstMatch(nodes[n].schema, Ctx(n), "No recognized trait code"))
            /\ result' = Matching("trait_extractor", n,
                                  FirstMatch(nodes[n].schema, Ctx(n), "No recognized trait code"))
  /\ UNCHANGED doc

Dispatched(op, n, m, kwargs) ==
  [Matching(op, n, m) EXCEPT
     !.kwargs = kwargs,
     !.desc = IF m.outcome = "ok" /\ op = "trait_code"
                THEN DescriptorFor(m.extractor, nodes[n].schema, kwargs)
                ELSE NoDescriptor]

Dispatch(op, n, what, kwargs) ==
  /\ Idle
  /\ result' = Dispatched(op, n, FirstMatch(nodes[n].schema, Ctx(n), what), kwargs)
  /\ UNCHANGED <<doc, nodes>>

TraitCode(n) == Dispatch("trait_code", n, "No recognized trait code", trait_code_kwargs(n))

ObjectCode(n) == Dispatch("object_code", n, "No recognized object code", EmptyDict)

TraitImports(n) == Dispatch("trait_imports", n, "No recognized trait code", EmptyDict)

\* The outcome of a predicate that answered b or raised b.
Answered(op, n, b) ==
  [Called(op, n) EXCEPT !.outcome = IF b \in {"True", "False"} THEN "ok" ELSE b,
                        !.msg = IF b \in {"True", "False"} THEN b ELSE ""]

ReallyIsTrait(n) ==
  /\ Idle
  /\ result' = Answered("really_is_trait", n, really_is_trait(nodes[n].schema, Ctx(n), 1))
  /\ UNCHANGED <<doc, nodes>>

ReallyIsObject(n) ==
  /\ Idle
  /\ result' = Answered("really_is_object", n, really_is_object(nodes[n].schema, Ctx(n), 1))
  /\ UNCHANGED <<doc, nodes>>

\* The first exception object_code raises over the class list, or "ok".
RECURSIVE RenderFrom(_, _, _)
RenderOn(m, schemas, c, i) ==
  IF m.outcome = "ok" THEN RenderFrom(schemas, c, i + 1) ELSE m.outcome

RenderFrom(schemas, c, i) ==
  IF i > Len(schemas) THEN "ok"
  ELSE RenderOn(FirstMatch(schemas[i], c, "No recognized object code"), schemas, c, i)

ClassSchemas(n, wrapped) ==
  <<nodes[n].schema>> \o [i \in 1..Len(wrapped) |-> wrapped[i][2].schema]

Render(n, wrapped) == RenderFrom(ClassSchemas(n, wrapped), Ctx(n), 1)

\* source_tree on a root whose definitions wrap as wrapped: the class list is
\* the node and its wrapped definitions; the template calls object_code on
\* each class, then module_imports reads the node's trait_extractor, which
\* caches it.
Assemble(n, wrapped) ==
  IF \E i \in 1..Len(wrapped) : NotADict(wrapped[i][2].schema)
    THEN /\ nodes' = nodes
         /\ result' = Raised("source_tree", n, "ValueError",
                             "schema should be supplied as a dict")
    ELSE /\ nodes' =
              (IF Render(n, wrapped) = "ok" /\ nodes[n].trait_extractor = NoneV
                 THEN Cache(n, FirstMatch(nodes[n].schema, Ctx(n), "No recognized trait code"))
                 ELSE nodes) \o NewNodes(n, wrapped)
         /\ result' = [Called("source_tree", n) EXCEPT
                         !.outcome = Render(n, wrapped),
                         !.entries = NewEntries(wrapped),
                         !.classes = <<n>> \o [i \in 1..Len(wrapped) |-> Len(nodes) + i]]

SourceTree(n) ==
  /\ Idle
  /\ is_root(nodes, n) => Len(nodes) + Len(wrapped_definitions(n)) <= MaxNodes
  /\ IF ~is_root(nodes, n)
       THEN /\ nodes' = nodes
            /\ result' = Raised("source_tree", n, "AssertionError", "")
       ELSE Assemble(n, wrapped_definitions(n))
  /\ UNCHANGED doc

\* The caller takes the outcome of its call; it makes its next call after.
Return ==
  /\ result # NoResult
  /\ result' = NoResult
  /\ UNCHANGED <<doc, nodes>>

Next ==
  \/ \E n \in Nodes, a \in MakeChildInputs : MakeChild(n, a.schema, a.name, a.metadata)
  \/ \E n \in Nodes, kwargs \in CopyKwargs : Copy(n, kwargs)
  \/ \E n \in Nodes, ref \in Refs : GetReference(n, ref)
  \/ \E n \in Nodes : WrappedRef(n)
  \/ \E n \in Nodes : WrappedDefinitions(n)
  \/ \E n \in Nodes : WrappedProperties(n)
  \/ \E n \in Nodes : TraitExtractor(n)
  \/ \E n \in Nodes : TraitCode(n)
  \/ \E n \in Nodes : ObjectCode(n)
  \/ \E n \in Nodes : TraitImports(n)
  \/ \E n \in Nodes : ReallyIsTrait(n)
  \/ \E n \in Nodes : ReallyIsObject(n)
  \/ \E n \in Nodes : SourceTree(n)
  \/ Return

Spec == Init /\ [][Next]_vars

\* ------------------------------------------- the validators on their own

\* How many branches a composite descriptor offered to validate may have.
MaxBranches == 2

LeafKinds == {"Null", "Boolean", "Number", "Integer", "String"}

Leaves == {Leaf(k, au) : k \in LeafKinds, au \in BOOLEAN}

BranchLists == UNION {[1..n -> Leaves] : n \in 0..MaxBranches}

Descriptors ==
  Leaves
    \cup {Composite(k, bs, au) : k \in {"AnyOf", "OneOf", "AllOf"}, bs \in BranchLists,
                                au \in BOOLEAN}
    \cup {Composite("Not", <<b>>, au) : b \in Leaves, au \in BOOLEAN}

Validate(d, v) ==
  /\ Idle
  /\ result' = [Called("validate", 0) EXCEPT
                  !.desc = d, !.val = v,
                  !.outcome = IF validate(d, v) THEN "pass" ELSE "fail"]
  /\ UNCHANGED <<doc, nodes>>

InitValidate ==
  /\ doc = 1
  /\ nodes = << JSONSchema_init(1, 1, "pkg", 0, 0, NoneV, EmptyDict, DefaultDefinitionTags) >>
  /\ result = NoResult

\* The descriptors a test can hand to validate: none while a call is on.
Offered == IF Idle THEN Descriptors ELSE {}

NextValidate ==
  \/ \E d \in Offered, v \in Values : Validate(d, v)
  \/ Return

SpecValidate == InitValidate /\ [][NextValidate]_vars

\* ------------------------------------------------------------------ claims

\* The fragment and the context fragment of the node the last call was on.
Subject == nodes[result.node].schema

SubjectCtx == Ctx(result.node)

Dispatching == result.op \in {"trait_extractor", "trait_code", "object_code", "trait_imports"}

\* The order the classification is said to follow.
C1_Order ==
  <<"AnyOfObject", "OneOfObject", "AllOfObject", "RefObject", "RefTrait",
    "Not", "AnyOf", "AllOf", "OneOf", "Enum", "SimpleType", "CompoundType",
    "Array", "Object">>

\* The i-th extractor of that order matches and none before it does.
C1_Earliest(f, c, i) ==
  /\ check(C1_Order[i], f, c) = "True"
  /\ \A j \in 1..(i - 1) : check(C1_Order[j], f, c) = "False"

\* C1: trait_extractor, trait_code, object_code and trait_imports each use
\* the earliest extractor of the fixed order whose check() holds, and fail
\* with a ValueError carrying the node's keys when no check() holds.
C1_FirstMatchWins ==
  Dispatching =>
    /\ result.outcome = "ok" =>
         \E i \in 1..Len(C1_Order) :
           C1_Order[i] = result.extractor /\ C1_Earliest(Subject, SubjectCtx, i)
    /\ (\E i \in 1..Len(C1_Order) : C1_Earliest(Subject, SubjectCtx, i)) =>
         result.outcome = "ok"
    /\ (\A i \in 1..Len(C1_Order) : check(C1_Order[i], Subject, SubjectCtx) = "False") =>
         /\ result.outcome = "ValueError"
         /\ result.keys = KeysOf(Subject)
         /\ result.extractor = NoneV

\* A node that two extractors match (Enum and SimpleType) was classified
\* from its cache as the earlier one.
C1_Witness ==
  /\ result.op = "trait_extractor"
  /\ result.extractor = "Enum"
  /\ check("SimpleType", Subject, SubjectCtx) = "True"

\* The fragment reached from f through path[i..], or 0 when a segment is
\* missing (a value that is no mapping has no segments).
RECURSIVE C2_Target(_, _, _)
C2_Target(f, path, i) ==
  IF i > Len(path) THEN f
  ELSE IF D[f].kind = "dict" /\ HasKey(f, path[i]) THEN C2_Target(Lookup(f, path[i]), path, i + 1)
  ELSE 0

\* ref reads '#/s1/.../sk'.
C2_Pointer(path) == Len(path) >= 2 /\ path[1] = "#"

\* The node get_reference handed back is a new child of the invoking node
\* wrapping target under the path's last segment.
C2_ChildOf(path, target) ==
  /\ result.outcome = "ok"
  /\ result.ret = Len(nodes)
  /\ result.ret # result.node
  /\ nodes[result.ret].schema = target
  /\ nodes[result.ret].name = path[Len(path)]
  /\ nodes[result.ret].parent = result.node
  /\ nodes[result.ret].module = nodes[result.node].module
  /\ nodes[result.ret].context = nodes[result.node].context

\* C2 as claimed: '#' gives the context root, and every '#/s1/.../sk' whose
\* segments all exist gives a child wrapping the fragment reached.
C2_ResolvesEveryExistingPath ==
  result.op = "get_reference" /\ result.ref # << >> =>
    /\ Split(result.ref) = <<"#">> =>
         result.outcome = "ok" /\ result.ret = nodes[result.node].context
    /\ (C2_Pointer(Split(result.ref)) /\ C2_Target(SubjectCtx, Split(result.ref), 2) # 0) =>
         C2_ChildOf(Split(result.ref), C2_Target(SubjectCtx, Split(result.ref), 2))

\* C2 amended: '#', and any pointer whose first segment is empty, gives the
\* context root; a '#/s1/.../sk' with s1 non-empty whose segments all exist
\* gives such a child when the fragment reached is a mapping, and raises
\* ValueError when it is not.
C2_ResolvesMappings ==
  result.op = "get_reference" /\ result.ref # << >> =>
    /\ (Split(result.ref) = <<"#">>
          \/ (C2_Pointer(Split(result.ref)) /\ Split(result.ref)[2] = "")) =>
         result.outcome = "ok" /\ result.ret = nodes[result.node].context
    /\ (/\ C2_Pointer(Split(result.ref))
        /\ Split(result.ref)[2] # ""
        /\ C2_Target(SubjectCtx, Split(result.ref), 2) # 0) =>
         IF D[C2_Target(SubjectCtx, Split(result.ref), 2)].kind = "dict"
           THEN C2_ChildOf(Split(result.ref), C2_Target(SubjectCtx, Split(result.ref), 2))
           ELSE result.outcome = "ValueError" /\ result.ret = 0

\* A reference was resolved from a node that is not the root.
C2_Witness ==
  /\ result.op = "get_reference"
  /\ result.outcome = "ok"
  /\ result.node # nodes[result.node].context
  /\ result.ret = Len(nodes)
  /\ Len(Split(result.ref)) >= 3

\* C3: an empty reference, a reference not starting with '#', and a pointer
\* with a missing segment (also below a value that is no mapping) each fail
\* with the ValueError of their kind, and no node is returned.
C3_RejectsBadReferences ==
  result.op = "get_reference" =>
    /\ result.ref = << >> =>
         result.outcome = "ValueError" /\ result.msg = "empty reference" /\ result.ret = 0
    /\ (result.ref # << >> /\ Split(result.ref)[1] # "#") =>
         /\ result.outcome = "ValueError"
         /\ result.msg = "Unrecognized $ref format"
         /\ result.ret = 0
    /\ (/\ result.ref # << >>
        /\ C2_Pointer(Split(result.ref))
        /\ Split(result.ref)[2] # ""
        /\ C2_Target(SubjectCtx, Split(result.ref), 2) = 0) =>
         /\ result.outcome = "ValueError"
         /\ result.msg = "$ref not present in the schema"
         /\ result.ret = 0

\* The fragments a node's predicates go on to from f: the $ref target, or
\* the branches of the composition keyword.
C4_Refers(f, c) ==
  IF HasKey(f, "$ref")
    THEN (IF wrapped_ref(f, c).outcome = "ok" THEN {wrapped_ref(f, c).schema} ELSE {})
  ELSE IF HasComposition(f)
    THEN {e \in 1..Len(D) : /\ D[e].kind = "dict"
                             /\ D[Lookup(f, Composition(f))].kind = "list"
                             /\ \E i \in 1..Len(D[Lookup(f, Composition(f))].items) :
                                  D[Lookup(f, Composition(f))].items[i] = e}
  ELSE {}

RECURSIVE C4_Reach(_, _, _)
C4_Reach(S, c, k) ==
  IF k = 0 THEN S ELSE C4_Reach(S \cup UNION {C4_Refers(f, c) : f \in S}, c, k - 1)

\* f refers back to itself through $ref / anyOf / allOf / oneOf.
C4_Cyclic(f, c) == f \in C4_Reach(C4_Refers(f, c), c, Len(D))

\* C4: on a definition that refers back to itself the predicates end with
\* a cyclic-reference error.
C4_CycleIsReported ==
  (/\ result.op \in {"really_is_object", "really_is_trait"}
   /\ ~HasKey(Subject, "properties")
   /\ C4_Cyclic(Subject, SubjectCtx)) =>
    result.outcome = "CyclicReferenceError"

\* The branches of the node's composition keyword.
C5_Branches(f) == D[Lookup(f, Composition(f))].items

\* C5: a composition node without own properties is object-like iff every
\* branch is, and one that is not object-like is trait-like.
C5_NotObjectIsTrait ==
  (/\ result.op \in {"really_is_object", "really_is_trait"}
   /\ result.outcome = "ok"
   /\ HasComposition(Subject)
   /\ ~HasKey(Subject, "properties")
   /\ ~HasKey(Subject, "$ref")) =>
    /\ result.op = "really_is_object" =>
         (result.msg = "True") =
           (\A i \in 1..Len(C5_Branches(Subject)) :
              really_is_object(C5_Branches(Subject)[i], SubjectCtx, 1) = "True")
    /\ (result.op = "really_is_trait" /\ really_is_object(Subject, SubjectCtx, 1) = "False") =>
         result.msg = "True"

\* name is listed in the 'required' list of the object f.
C6_InRequired(f, name) ==
  /\ HasKey(f, "required")
  /\ \E e \in 1..Len(D) :
       /\ D[e] = Str(<<name>>)
       /\ \E i \in 1..Len(D[Lookup(f, "required")].items) : D[Lookup(f, "required")].items[i] = e

C6_Kwargs(required) == IF required THEN "allow_undefined" :> FALSE ELSE EmptyDict

C6_Marked(n) == "required" \in DOMAIN nodes[n].metadata /\ nodes[n].metadata["required"]

\* C6: the child wrapped_properties makes for a property is marked required
\* iff the property is listed in 'required'; trait_code asks for
\* allow_undefined=False exactly for marked nodes; and a descriptor passes
\* Undefined iff it allows it, whatever else it constrains.
C6_RequiredRejectsUndefined ==
  /\ (result.op = "wrapped_properties" /\ result.outcome = "ok") =>
       /\ \A i \in 1..Len(result.entries) :
            /\ nodes[result.entries[i].node].metadata =
                 ("required" :> C6_InRequired(Subject, result.entries[i].name))
            /\ trait_code_kwargs(result.entries[i].node) =
                 C6_Kwargs(C6_InRequired(Subject, result.entries[i].name))
            /\ \A ex \in {trait_extractors[k] : k \in 1..Len(trait_extractors)} :
                 validate(DescriptorFor(ex, nodes[result.entries[i].node].schema,
                                        trait_code_kwargs(result.entries[i].node)),
                          Undefined)
                   = ~C6_InRequired(Subject, result.entries[i].name)
       /\ \A d \in Descriptors : validate(d, Undefined) = d.allow_undefined
  /\ (result.op = "trait_code" /\ result.outcome = "ok") =>
       /\ result.kwargs = C6_Kwargs(C6_Marked(result.node))
       /\ validate(result.desc, Undefined) = ~C6_Marked(result.node)

\* An object's properties were wrapped, one required and one optional.
C6_Witness ==
  /\ result.op = "wrapped_properties"
  /\ result.outcome = "ok"
  /\ \E i, j \in 1..Len(result.entries) :
       /\ C6_InRequired(Subject, result.entries[i].name)
       /\ ~C6_InRequired(Subject, result.entries[j].name)

\* The branches of d that validate v.
C7_Validating(d, v) == {i \in 1..Len(d.branches) : validate(d.branches[i], v)}

C7_IntegerOrNumber == <<Leaf("Integer", TRUE), Leaf("Number", TRUE)>>

\* C7: OneOf passes a value iff exactly one branch validates it; over
\* [Integer, Number], 3 and None fail and 3.14 passes.
C7_OneOfExactlyOne ==
  (result.op = "validate" /\ result.desc.kind = "OneOf" /\ result.val # Undefined) =>
    /\ (result.outcome = "pass") = (Cardinality(C7_Validating(result.desc, result.val)) = 1)
    /\ result.desc.branches = C7_IntegerOrNumber =>
         /\ result.val = [t |-> "int", v |-> 3] => result.outcome = "fail"
         /\ result.val = [t |-> "none", v |-> 0] => result.outcome = "fail"
         /\ result.val = [t |-> "float", v |-> 314] => result.outcome = "pass"

\* OneOf([Integer, Number]) was offered 3, which both branches validate.
C7_Witness ==
  /\ result.op = "validate"
  /\ result.desc.kind = "OneOf"
  /\ result.desc.branches = C7_IntegerOrNumber
  /\ result.val = [t |-> "int", v |-> 3]
  /\ Cardinality(C7_Validating(result.desc, result.val)) = 2

\* C8: every node has the root's context, the root alone is its own
\* context, and get_reference('#') hands back that root.
C8_OneContext ==
  /\ \A n \in Nodes : nodes[n].context = 1 /\ (is_root(nodes, n) <=> n = 1)
  /\ (result.op = "get_reference" /\ result.ref = <<"#">>) =>
       result.outcome = "ok" /\ result.ret = 1

\* The root was copied, and a node below a child exists.
C8_Witness ==
  /\ result.op = "copy"
  /\ result.node = 1
  /\ result.ret = 3
  /\ nodes[2].parent = 1
  /\ nodes[2].schema # 1

\* C9 as claimed: no field of an existing node, the cached extractor
\* included, ever changes.
C9_NothingChanges ==
  [][\A n \in 1..Len(nodes) : n <= Len(nodes') /\ nodes'[n] = nodes[n]]_vars

C9_Uncached(node) == [node EXCEPT !.trait_extractor = NoneV]

\* C9 amended: no field of an existing node other than the cached extractor
\* ever changes; the cache changes only on the node trait_extractor is read
\* on (by the caller, or by source_tree's module_imports), from None to the
\* node's first matching extractor, and never again.
C9_OnlyTheCacheIsFilled ==
  [][\A n \in 1..Len(nodes) :
       /\ n <= Len(nodes')
       /\ C9_Uncached(nodes'[n]) = C9_Uncached(nodes[n])
       /\ nodes'[n].trait_extractor # nodes[n].trait_extractor =>
            /\ nodes[n].trait_extractor = NoneV
            /\ result'.op \in {"trait_extractor", "source_tree"}
            /\ result'.node = n
            /\ \E i \in 1..Len(C1_Order) :
                 /\ C1_Order[i] = nodes'[n].trait_extractor
                 /\ C1_Earliest(nodes[n].schema, Ctx(n), i)]_vars

\* One node's extractor is cached while another node's is not.
C9_Witness ==
  /\ result.op = "trait_extractor"
  /\ nodes[result.node].trait_extractor # NoneV
  /\ \E m \in Nodes : nodes[m].trait_extractor = NoneV

\* The <<name, fragment>> entries of the table under the k-th definition tag.
C10_TableAt(n, k) ==
  {Table(nodes[n].schema, nodes[n].definition_tags[k])[i] :
     i \in 1..Len(Table(nodes[n].schema, nodes[n].definition_tags[k]))}

\* The definitions of node n: an entry of a table, unless a later table
\* defines the same name again.
C10_Definitions(n) ==
  {d \in UNION {C10_TableAt(n, k) : k \in 1..Len(nodes[n].definition_tags)} :
     \E k \in 1..Len(nodes[n].definition_tags) :
       /\ d \in C10_TableAt(n, k)
       /\ \A k2 \in (k + 1)..Len(nodes[n].definition_tags) :
            \A d2 \in C10_TableAt(n, k2) : d2[1] # d[1]}

\* C10: wrapped_definitions returns one child per definition, wrapping that
\* definition's fragment under its name, and source_tree lists the root and
\* one class per definition.
C10_OneNodePerDefinition ==
  /\ (result.op = "wrapped_definitions" /\ result.outcome = "ok") =>
       /\ Len(result.entries) = Cardinality(C10_Definitions(result.node))
       /\ \A d \in C10_Definitions(result.node) :
            \E i \in 1..Len(result.entries) :
              /\ nodes[result.entries[i].node].name = d[1]
              /\ nodes[result.entries[i].node].schema = d[2]
              /\ nodes[result.entries[i].node].parent = result.node
  /\ (result.op = "source_tree" /\ result.outcome = "ok") =>
       /\ Len(result.classes) = 1 + Cardinality(C10_Definitions(result.node))
       /\ result.classes[1] = result.node
       /\ \A d \in C10_Definitions(result.node) :
            \E i \in 2..Len(result.classes) :
              /\ nodes[result.classes[i]].name = d[1]
              /\ nodes[result.classes[i]].schema = d[2]

====
